---- MODULE Spec2Model ----
(***************************************************************************)
(* Model of the Daikin air purifier accessory: the DeviceClient            *)
(* (src/src/client.ts) and the DaikinAirPurifier accessory with its cached *)
(* State, timer, characteristic handlers and updateState                   *)
(* (src/unnamed/part_000).                                                 *)
(*                                                                         *)
(* Node runs every callback to its next await atomically, so one action is *)
(* one run of a callback between two suspension points.  The only          *)
(* suspension points are the axios.get calls inside callDevice.            *)
(***************************************************************************)
EXTENDS Integers, Sequences, FiniteSets, TLC

\* ------------------------------------------------------------------ bounds
\* Date.now() when the constructor runs (epoch milliseconds, far above 5000).
StartTime == 10000
\* The clock is observed every Quantum ms, for Horizon quanta.
Horizon == 5
\* Calls of updateState in one run (the constructor's call is the first).
MaxRefreshes == 3
\* Calls of an Active onSet handler in one run.
MaxWrites == 1
\* Items in a response body.
MaxItems == 3
\* Quanta the clock is observed for while the device answers at once.
QuietHorizon == 8

\* ------------------------------------------------------- program constants
FreshWindow == 5000
TickPeriod == 10000

Quantum == FreshWindow \div 2
MaxTime == StartTime + Horizon * Quantum
QuietMaxTime == StartTime + QuietHorizon * Quantum

\* ------------------------------------------------------------ wire values
\* A key the parsed response does not hold reads as undefined.
Absent == "<undefined>"

\* What axios.get and the parse loop of callDevice hand on: either the request
\* failed (http = "error"), or a mapping from keys to texts.  htemp and hhum are
\* sequences of characters, parsed by parseFloat.
Response(http, ret, pow, humd, htemp, hhum) ==
  [http |-> http, ret |-> ret, pow |-> pow, humd |-> humd, htemp |-> htemp, hhum |-> hhum]

NoText == << >>
TransportFailure == Response("error", Absent, Absent, Absent, NoText, NoText)
DeviceError == Response("ok", "PARAM NG", Absent, Absent, NoText, NoText)
\* No response received (yet).
NoResponse == Response("none", Absent, Absent, Absent, NoText, NoText)

Return(v) == [ok |-> TRUE, value |-> v]
Throw(e) == [ok |-> FALSE, error |-> e]

\* Numbers of sensorInfo, in tenths; NaN is what parseFloat gives for no number.
Num(tenths) == [nan |-> FALSE, tenths |-> tenths]
NaN == [nan |-> TRUE, tenths |-> 0]

Digits == {"0", "1", "2", "3", "4", "5", "6", "7", "8", "9"}
DigitVal(c) ==
  CASE c = "0" -> 0 [] c = "1" -> 1 [] c = "2" -> 2 [] c = "3" -> 3 [] c = "4" -> 4
    [] c = "5" -> 5 [] c = "6" -> 6 [] c = "7" -> 7 [] c = "8" -> 8 [] c = "9" -> 9

\* The length of the longest prefix of s made of digits.
RECURSIVE DigitRun(_)
DigitRun(s) ==
  IF s = << >> \/ Head(s) \notin Digits THEN 0 ELSE 1 + DigitRun(Tail(s))

RECURSIVE DigitsValue(_, _)
DigitsValue(s, n) ==
  IF n = 0 THEN 0 ELSE 10 * DigitsValue(s, n - 1) + DigitVal(s[n])

\* parseFloat on texts with at most one digit after the point: the longest
\* numeric prefix (sign, digits, point, digit), NaN when there is none.
ParseFloat(s) ==
  LET neg == s # << >> /\ Head(s) = "-"
      body == IF neg THEN Tail(s) ELSE s
      n == DigitRun(body)
      rest == SubSeq(body, n + 1, Len(body))
      frac == IF rest # << >> /\ Head(rest) = "." THEN Tail(rest) ELSE << >>
      hasFrac == frac # << >> /\ Head(frac) \in Digits
      tenths == 10 * DigitsValue(body, n) + (IF hasFrac THEN DigitVal(Head(frac)) ELSE 0)
  IN  IF n = 0 /\ ~hasFrac THEN NaN
      ELSE Num(IF neg THEN 0 - tenths ELSE tenths)

\* ---------------------------------------------------------- DeviceClient
\* CallDevice failing only on the ret the device sends for an error.
CallDevice_ngOnly(resp) ==
  IF resp.http # "ok" THEN Throw("request failed")
  ELSE IF resp.ret = "NG" THEN Throw("device API failed")
  ELSE Return(resp)

\* callDevice: axios.get throws on a failed request; a parsed response whose
\* ret is not "OK" throws; otherwise the mapping is returned.
CallDevice(resp) ==
  IF resp.http # "ok" THEN Throw("request failed")
  ELSE IF resp.ret # "OK" THEN Throw("device API failed")
  ELSE Return(resp)

\* The switch on resp.pow of getControlInfo.
DecodePow(code) ==
  CASE code = "0" -> Return(FALSE)
    [] code = "1" -> Return(TRUE)
    [] OTHER -> Throw("Unknown value for pow")

\* DecodeHumd without the case for "4" (auto).
DecodeHumd_noAuto(code) ==
  CASE code = "0" -> Return(FALSE)
    [] code \in {"1", "2", "3"} -> Return(TRUE)
    [] OTHER -> Throw("Unknown value for humd")

\* The switch on resp.humd of getControlInfo.
DecodeHumd(code) ==
  CASE code = "0" -> Return(FALSE)
    [] code \in {"1", "2", "3", "4"} -> Return(TRUE)
    [] OTHER -> Throw("Unknown value for humd")

GetControlInfo(resp) ==
  LET r == CallDevice(resp) IN
  IF ~r.ok THEN r
  ELSE LET p == DecodePow(r.value.pow) IN
       IF ~p.ok THEN p
       ELSE LET h == DecodeHumd(r.value.humd) IN
            IF ~h.ok THEN h
            ELSE Return([power |-> p.value, humidifier |-> h.value])

GetSensorInfo(resp) ==
  LET r == CallDevice(resp) IN
  IF ~r.ok THEN r
  ELSE Return([temperature |-> ParseFloat(r.value.htemp),
               humidity |-> ParseFloat(r.value.hhum)])

\* EncodePow with the two codes exchanged.
EncodePow_inverted(power) == IF power THEN "0" ELSE "1"

\* The pow parameter setControlInfo sends.
EncodePow(power) == IF power THEN "1" ELSE "0"

\* setControlInfo: callDevice with the pow parameter; nothing is returned.
SetControlInfo(resp) ==
  LET r == CallDevice(resp) IN
  IF ~r.ok THEN r ELSE Return("void")

\* ------------------------------------------------- the parse of callDevice
\* Texts are sequences of characters.  Str(text) is the text as a string.
RECURSIVE Str(_)
Str(text) == IF text = << >> THEN "" ELSE Head(text) \o Str(Tail(text))

\* The position of the first c in text, 0 when there is none.
RECURSIVE IndexOf(_, _)
IndexOf(text, c) ==
  IF text = << >> THEN 0
  ELSE IF Head(text) = c THEN 1
  ELSE LET i == IndexOf(Tail(text), c) IN IF i = 0 THEN 0 ELSE i + 1

\* String.prototype.split(sep): the pieces of text between the separators.
RECURSIVE Split(_, _)
Split(text, sep) ==
  LET i == IndexOf(text, sep) IN
  IF i = 0 THEN <<text>>
  ELSE <<SubSeq(text, 1, i - 1)>> \o Split(SubSeq(text, i + 1, Len(text)), sep)

\* String.prototype.split(sep, limit): the first limit pieces of split(sep);
\* what follows them is dropped.
SplitLimit(text, sep, limit) ==
  LET all == Split(text, sep) IN
  SubSeq(all, 1, IF Len(all) < limit THEN Len(all) ELSE limit)

\* A value of the parsed mapping: a text, or undefined.
Defined(text) == [def |-> TRUE, text |-> text]
Undefined == [def |-> FALSE, text |-> << >>]

\* ret[k] = v
Put(m, k, v) == [x \in (DOMAIN m) \cup {k} |-> IF x = k THEN v ELSE m[x]]

\* ret[k], undefined when the mapping has no k.
Field(m, k) == IF k \in DOMAIN m THEN m[k] ELSE Undefined

\* The loop of callDevice over the first n items: const [k, v] =
\* item.split("=", 2); ret[k] = v.
RECURSIVE ParseItems(_, _)
ParseItems(items, n) ==
  IF n = 0 THEN [x \in {} |-> Undefined]
  ELSE LET kv == SplitLimit(items[n], "=", 2)
           v == IF Len(kv) >= 2 THEN Defined(kv[2]) ELSE Undefined
       IN  Put(ParseItems(items, n - 1), Str(kv[1]), v)

\* The mapping callDevice builds from resp.data.
ParseData(data) == LET items == Split(data, ",") IN ParseItems(items, Len(items))

\* A value of the mapping as the code of a switch or comparison.
Code(v) == IF v.def THEN Str(v.text) ELSE Absent

\* What the getters and the ret check read of the mapping m.
AsResponse(http, m) ==
  Response(http, Code(Field(m, "ret")), Code(Field(m, "pow")), Code(Field(m, "humd")),
           Field(m, "htemp").text, Field(m, "hhum").text)

\* ------------------------------------------------------------ the device
\* What the device can answer to get_control_info while its power is devPow:
\* its status with any humidifier mode, a status lacking humd or pow, an error
\* status, or no answer at all.
ControlAnswers(power) ==
  { Response("ok", "OK", power, h, NoText, NoText) : h \in {"0", "4", Absent} }
    \cup { Response("ok", "OK", Absent, "0", NoText, NoText), DeviceError, TransportFailure }

\* What the device can answer to get_sensor_info ("-" when it has no reading).
SensorAnswers ==
  { Response("ok", "OK", Absent, Absent, <<"2", "1", ".", "5">>, <<"4", "0">>),
    Response("ok", "OK", Absent, Absent, <<"-">>, <<"-">>),
    DeviceError, TransportFailure }

\* What the device can answer to set_control_info.
CommandAnswers ==
  { Response("ok", "OK", Absent, Absent, NoText, NoText), DeviceError, TransportFailure }

\* -------------------------------------------------------- the accessory
VARIABLES
  now,          \* Date.now()
  nextTick,     \* when the setInterval callback runs next
  state,        \* this.state
  fetchedBy,    \* history: the updateState calls whose fetches this.state holds (0: the
                \* initializer), and the responses those fetches received
  refreshes,    \* the calls of updateState, by number
  nextRefresh,  \* the number the next call of updateState gets
  writes,       \* the calls of the Active onSet handlers, by number
  nextWrite,    \* the number the next onSet call gets
  devPow,       \* the device's power, as its pow code
  pushed,       \* the values last given to updateValue (none before the first)
  reply,        \* what the last onGet handler returned (cleared by any other step)
  running,      \* the process is alive
  decodeIn,     \* a response handed to getControlInfo
  decodeOut,    \* what getControlInfo made of decodeIn
  callIn,       \* a DeviceClient operation and the outcome of its axios.get
  callOut       \* the mapping callDevice parsed and what the operation made of it

vars == <<now, nextTick, state, fetchedBy, refreshes, nextRefresh, writes, nextWrite,
          devPow, pushed, reply, running, decodeIn, decodeOut, callIn, callOut>>

\* The variables of the DeviceClient tried on its own.
decodeVars == <<decodeIn, decodeOut, callIn, callOut>>

\* No DeviceClient operation is being tried.
NoCall == [op |-> "none", http |-> "error", items |-> << >>]

RefreshIds == 1..MaxRefreshes
WriteIds == 1..MaxWrites

InitialControlInfo == [power |-> FALSE, humidifier |-> FALSE]
InitialSensorInfo == [temperature |-> Num(0), humidity |-> Num(0)]
InitialState ==
  [updated_at |-> 0, controlInfo |-> InitialControlInfo, sensorInfo |-> InitialSensorInfo]

\* Both parts of the initial state come from the field initializer.
InitialFetchedBy ==
  [controlInfo |-> 0, sensorInfo |-> 0, controlResp |-> NoResponse, sensorResp |-> NoResponse,
   repeated |-> FALSE]

\* this.state was assigned by updateState call r, which had received ctrlResp
\* and sensorResp; repeated tells whether these are the responses of the
\* snapshot that prev says this.state held.
FetchedBy(r, ctrlResp, sensorResp, prev) ==
  [controlInfo |-> r, sensorInfo |-> r, controlResp |-> ctrlResp, sensorResp |-> sensorResp,
   repeated |-> (prev.controlResp = ctrlResp /\ prev.sensorResp = sensorResp)]

\* The object literal updateState assigns to this.state.
NewState(t, ctrlInfo, sensorInfo) ==
  [updated_at |-> t, controlInfo |-> ctrlInfo, sensorInfo |-> sensorInfo]

\* Characteristic values: an enum member or a number.
EnumValue(e) == [enum |-> e, num |-> NaN]
NumValue(n) == [enum |-> "number", num |-> n]

GetCurrentAirPurifierState(st) ==
  EnumValue(IF st.controlInfo.power THEN "PURIFYING_AIR" ELSE "INACTIVE")
GetActive(st) == EnumValue(IF st.controlInfo.power THEN "ACTIVE" ELSE "INACTIVE")
GetTargetAirPurifierState(st) == EnumValue("AUTO")
GetCurrentTemperature(st) == NumValue(st.sensorInfo.temperature)
GetCurrentHumidity(st) == NumValue(st.sensorInfo.humidity)
GetTargetHumidifierState(st) == EnumValue("HUMIDIFIER")
GetCurrentHumidifierState(st) ==
  EnumValue(IF st.controlInfo.humidifier THEN "HUMIDIFYING" ELSE "INACTIVE")

Getters ==
  {"getCurrentAirPurifierState", "getActive", "getTargetAirPurifierState",
   "getCurrentTemperature", "getCurrentHumidity", "getTargetHumidifierState",
   "getCurrentHumidifierState"}

\* The onGet handlers: each returns its getter's value.
OnGet(getter, st) ==
  CASE getter = "getCurrentAirPurifierState" -> GetCurrentAirPurifierState(st)
    [] getter = "getActive" -> GetActive(st)
    [] getter = "getTargetAirPurifierState" -> GetTargetAirPurifierState(st)
    [] getter = "getCurrentTemperature" -> GetCurrentTemperature(st)
    [] getter = "getCurrentHumidity" -> GetCurrentHumidity(st)
    [] getter = "getTargetHumidifierState" -> GetTargetHumidifierState(st)
    [] getter = "getCurrentHumidifierState" -> GetCurrentHumidifierState(st)

\* The updateValue calls that end updateState, by service and characteristic.
UpdateValues(st) ==
  [airPurifierCurrentState |-> GetCurrentAirPurifierState(st),
   airPurifierActive |-> GetActive(st),
   airPurifierTargetState |-> GetTargetAirPurifierState(st),
   currentTemperature |-> GetCurrentTemperature(st),
   humidifierActive |-> GetActive(st),
   currentRelativeHumidity |-> GetCurrentHumidity(st),
   humidifierTargetState |-> GetTargetHumidifierState(st),
   humidifierCurrentState |-> GetCurrentHumidifierState(st)]

NoReply == [getter |-> "none", value |-> EnumValue("none")]

\* A call of updateState: where it is suspended (pc), who called it (origin, and
\* the onSet call when it was one), its local ctrlInfo with, as history, the
\* response it was decoded from, and, when it rejected, the fetch that failed
\* and what became of its promise.
IdleRefresh ==
  [pc |-> "idle", origin |-> "none", write |-> 0, ctrlInfo |-> InitialControlInfo,
   ctrlResp |-> NoResponse, failedAt |-> "none", rejection |-> "none"]

\* updateState runs up to the axios.get of getControlInfo.
BeginRefresh(origin, w) == [IdleRefresh EXCEPT !.pc = "ctrl", !.origin = origin, !.write = w]

\* updateState call rec has ended: its locals are gone.
EndRefresh(rec, pc, rejection) ==
  [IdleRefresh EXCEPT !.pc = pc, !.origin = rec.origin, !.write = rec.write,
                      !.failedAt = IF pc = "failed" THEN rec.pc ELSE "none",
                      !.rejection = rejection]

\* A call of an Active onSet handler: where it is (pc), the power it was asked
\* for (value === ACTIVE), the pow it sent, the error it rejected with, and, as
\* history, what the device answered to the command and where the updateState
\* call it made was when its promise resolved.
IdleWrite ==
  [pc |-> "idle", power |-> FALSE, pow |-> Absent, error |-> "none",
   answer |-> [http |-> "none", ret |-> Absent], refreshAtResolve |-> "none"]

\* UseCached with the comparison turned round.
UseCached_inverted(t, updated_at) == t > (updated_at + FreshWindow)

\* UseCached with <= for <.
UseCached_inclusive(t, updated_at) == t <= (updated_at + FreshWindow)

\* The test of the setInterval callback: true when it says "use cached".
UseCached(t, updated_at) == t < (updated_at + FreshWindow)

\* After the constructor: the timer is set and the first updateState waits for
\* the device's control info.
Init ==
  /\ now = StartTime
  /\ nextTick = StartTime + TickPeriod
  /\ state = InitialState
  /\ fetchedBy = InitialFetchedBy
  /\ refreshes = [r \in RefreshIds |-> IF r = 1 THEN BeginRefresh("init", 0) ELSE IdleRefresh]
  /\ nextRefresh = 2
  /\ writes = [w \in WriteIds |-> IdleWrite]
  /\ nextWrite = 1
  /\ devPow \in {"0", "1"}
  /\ pushed = << >>
  /\ reply = NoReply
  /\ running = TRUE
  /\ decodeIn = TransportFailure
  /\ decodeOut = << >>
  /\ callIn = NoCall
  /\ callOut = << >>

\* Nobody awaits or catches the promise of updateState, so its rejection is an
\* unhandled rejection: the host warns and goes on, or the process ends.
Reject(r) ==
  /\ refreshes' = [refreshes EXCEPT ![r] = EndRefresh(refreshes[r], "failed", "unhandled")]
  /\ running' \in BOOLEAN

\* Time passes; the timer is never late.
Advance ==
  /\ running
  /\ now + Quantum <= MaxTime
  /\ now + Quantum <= nextTick
  /\ now' = now + Quantum
  /\ reply' = NoReply
  /\ UNCHANGED <<nextTick, state, fetchedBy, refreshes, nextRefresh, writes, nextWrite,
                 devPow, pushed, running, decodeVars>>

\* Tick without the early return: updateState is called on every tick.
Tick_always ==
  /\ running
  /\ now >= nextTick
  /\ nextTick' = nextTick + TickPeriod
  /\ nextRefresh <= MaxRefreshes
  /\ refreshes' = [refreshes EXCEPT ![nextRefresh] = BeginRefresh("tick", 0)]
  /\ nextRefresh' = nextRefresh + 1
  /\ reply' = NoReply
  /\ UNCHANGED <<now, state, fetchedBy, writes, nextWrite, devPow, pushed, running,
                 decodeVars>>

\* Tick, but calling updateState only when no call of it is in flight.
Tick_dedup ==
  /\ running
  /\ now >= nextTick
  /\ nextTick' = nextTick + TickPeriod
  /\ IF \/ UseCached(now, state.updated_at)
        \/ \E r \in RefreshIds : refreshes[r].pc \in {"ctrl", "sensor"}
       THEN UNCHANGED <<refreshes, nextRefresh>>
       ELSE /\ nextRefresh <= MaxRefreshes
            /\ refreshes' = [refreshes EXCEPT ![nextRefresh] = BeginRefresh("tick", 0)]
            /\ nextRefresh' = nextRefresh + 1
  /\ reply' = NoReply
  /\ UNCHANGED <<now, state, fetchedBy, writes, nextWrite, devPow, pushed, running,
                 decodeVars>>

\* The setInterval callback.
Tick ==
  /\ running
  /\ now >= nextTick
  /\ nextTick' = nextTick + TickPeriod
  /\ IF UseCached(now, state.updated_at)
       THEN UNCHANGED <<refreshes, nextRefresh>>
       ELSE /\ nextRefresh <= MaxRefreshes
            /\ refreshes' = [refreshes EXCEPT ![nextRefresh] = BeginRefresh("tick", 0)]
            /\ nextRefresh' = nextRefresh + 1
  /\ reply' = NoReply
  /\ UNCHANGED <<now, state, fetchedBy, writes, nextWrite, devPow, pushed, running,
                 decodeVars>>

\* ControlResponse, but assigning the control info to this.state as soon as it
\* is fetched, before the sensor info is awaited.
ControlResponse_eager(r, resp) ==
  /\ running
  /\ refreshes[r].pc = "ctrl"
  /\ LET got == GetControlInfo(resp) IN
     IF got.ok
       THEN /\ refreshes' = [refreshes EXCEPT ![r].pc = "sensor", ![r].ctrlInfo = got.value,
                                               ![r].ctrlResp = resp]
            /\ state' = [state EXCEPT !.controlInfo = got.value]
            /\ fetchedBy' = [fetchedBy EXCEPT !.controlInfo = r, !.controlResp = resp]
            /\ UNCHANGED running
       ELSE /\ Reject(r)
            /\ UNCHANGED <<state, fetchedBy>>
  /\ reply' = NoReply
  /\ UNCHANGED <<now, nextTick, nextRefresh, writes, nextWrite, devPow, pushed, decodeVars>>

\* ControlResponse, but marking the cache stale (updated_at back to 0) when the
\* fetch fails.
ControlResponse_invalidating(r, resp) ==
  /\ running
  /\ refreshes[r].pc = "ctrl"
  /\ LET got == GetControlInfo(resp) IN
     IF got.ok
       THEN /\ refreshes' = [refreshes EXCEPT ![r].pc = "sensor", ![r].ctrlInfo = got.value,
                                               ![r].ctrlResp = resp]
            /\ UNCHANGED <<running, state>>
       ELSE /\ Reject(r)
            /\ state' = [state EXCEPT !.updated_at = 0]
  /\ reply' = NoReply
  /\ UNCHANGED <<now, nextTick, fetchedBy, nextRefresh, writes, nextWrite, devPow, pushed,
                 decodeVars>>

\* getControlInfo of updateState call r ends: updateState goes on to the
\* axios.get of getSensorInfo, or rejects.
ControlResponse(r, resp) ==
  /\ running
  /\ refreshes[r].pc = "ctrl"
  /\ LET got == GetControlInfo(resp) IN
     IF got.ok
       THEN /\ refreshes' = [refreshes EXCEPT ![r].pc = "sensor", ![r].ctrlInfo = got.value,
                                               ![r].ctrlResp = resp]
            /\ UNCHANGED running
       ELSE Reject(r)
  /\ reply' = NoReply
  /\ UNCHANGED <<now, nextTick, state, fetchedBy, nextRefresh, writes, nextWrite, devPow,
                 pushed, decodeVars>>

\* SensorResponse, but keeping the control info already fetched when the sensor
\* fetch fails.
SensorResponse_partial(r, resp) ==
  /\ running
  /\ refreshes[r].pc = "sensor"
  /\ LET got == GetSensorInfo(resp) IN
     IF got.ok
       THEN /\ state' = NewState(now, refreshes[r].ctrlInfo, got.value)
            /\ fetchedBy' = FetchedBy(r, refreshes[r].ctrlResp, resp, fetchedBy)
            /\ pushed' = <<UpdateValues(state')>>
            /\ refreshes' = [refreshes EXCEPT ![r] = EndRefresh(refreshes[r], "done", "none")]
            /\ UNCHANGED running
       ELSE /\ Reject(r)
            /\ state' = [state EXCEPT !.controlInfo = refreshes[r].ctrlInfo]
            /\ fetchedBy' = [fetchedBy EXCEPT !.controlInfo = r,
                                              !.controlResp = refreshes[r].ctrlResp]
            /\ UNCHANGED pushed
  /\ reply' = NoReply
  /\ UNCHANGED <<now, nextTick, nextRefresh, writes, nextWrite, devPow, decodeVars>>

\* SensorResponse, but smoothing the temperature: this.state gets the mean of
\* the temperature fetched and the one it held.
SensorResponse_smoothing(r, resp) ==
  /\ running
  /\ refreshes[r].pc = "sensor"
  /\ LET got == GetSensorInfo(resp) IN
     IF got.ok
       THEN /\ LET old == state.sensorInfo.temperature
                   new == got.value.temperature
                   mean == IF old.nan \/ new.nan THEN new
                           ELSE Num((old.tenths + new.tenths) \div 2)
               IN  state' = NewState(now, refreshes[r].ctrlInfo,
                                     [got.value EXCEPT !.temperature = mean])
            /\ fetchedBy' = FetchedBy(r, refreshes[r].ctrlResp, resp, fetchedBy)
            /\ pushed' = <<UpdateValues(state')>>
            /\ refreshes' = [refreshes EXCEPT ![r] = EndRefresh(refreshes[r], "done", "none")]
            /\ UNCHANGED running
       ELSE /\ Reject(r)
            /\ UNCHANGED <<state, fetchedBy, pushed>>
  /\ reply' = NoReply
  /\ UNCHANGED <<now, nextTick, nextRefresh, writes, nextWrite, devPow, decodeVars>>

\* SensorResponse, but updating the characteristics before this.state is
\* assigned.
SensorResponse_pushFirst(r, resp) ==
  /\ running
  /\ refreshes[r].pc = "sensor"
  /\ LET got == GetSensorInfo(resp) IN
     IF got.ok
       THEN /\ pushed' = <<UpdateValues(state)>>
            /\ state' = NewState(now, refreshes[r].ctrlInfo, got.value)
            /\ fetchedBy' = FetchedBy(r, refreshes[r].ctrlResp, resp, fetchedBy)
            /\ refreshes' = [refreshes EXCEPT ![r] = EndRefresh(refreshes[r], "done", "none")]
            /\ UNCHANGED running
       ELSE /\ Reject(r)
            /\ UNCHANGED <<state, fetchedBy, pushed>>
  /\ reply' = NoReply
  /\ UNCHANGED <<now, nextTick, nextRefresh, writes, nextWrite, devPow, decodeVars>>

\* getSensorInfo of updateState call r ends: updateState assigns this.state and
\* updates the characteristics, or rejects.
SensorResponse(r, resp) ==
  /\ running
  /\ refreshes[r].pc = "sensor"
  /\ LET got == GetSensorInfo(resp) IN
     IF got.ok
       THEN /\ state' = NewState(now, refreshes[r].ctrlInfo, got.value)
            /\ fetchedBy' = FetchedBy(r, refreshes[r].ctrlResp, resp, fetchedBy)
            /\ pushed' = <<UpdateValues(state')>>
            /\ refreshes' = [refreshes EXCEPT ![r] = EndRefresh(refreshes[r], "done", "none")]
            /\ UNCHANGED running
       ELSE /\ Reject(r)
            /\ UNCHANGED <<state, fetchedBy, pushed>>
  /\ reply' = NoReply
  /\ UNCHANGED <<now, nextTick, nextRefresh, writes, nextWrite, devPow, decodeVars>>

\* An Active onSet handler (of the air purifier or of the humidifier service:
\* the same code) is called with value: it runs up to the axios.get of
\* setControlInfo.
SetActive(value) ==
  /\ running
  /\ nextWrite <= MaxWrites
  /\ writes' = [writes EXCEPT ![nextWrite] =
                  [IdleWrite EXCEPT !.pc = "cmd", !.power = (value = "ACTIVE"),
                                    !.pow = EncodePow(value = "ACTIVE")]]
  /\ nextWrite' = nextWrite + 1
  /\ reply' = NoReply
  /\ UNCHANGED <<now, nextTick, state, fetchedBy, refreshes, nextRefresh, devPow, pushed,
                 running, decodeVars>>

\* CommandResponse, but calling updateState whether the command succeeded or
\* not (as in a finally clause).
CommandResponse_finally(w, resp) ==
  /\ running
  /\ writes[w].pc = "cmd"
  /\ nextRefresh <= MaxRefreshes
  /\ refreshes' = [refreshes EXCEPT ![nextRefresh] = BeginRefresh("write", w)]
  /\ nextRefresh' = nextRefresh + 1
  /\ LET sent == SetControlInfo(resp)
         answer == [http |-> resp.http, ret |-> resp.ret]
     IN  IF sent.ok
           THEN /\ devPow' = writes[w].pow
                /\ writes' = [writes EXCEPT ![w].pc = "resolved", ![w].answer = answer,
                                            ![w].refreshAtResolve = refreshes'[nextRefresh].pc]
           ELSE /\ writes' = [writes EXCEPT ![w].pc = "rejected", ![w].answer = answer,
                                            ![w].error = sent.error]
                /\ UNCHANGED devPow
  /\ reply' = NoReply
  /\ UNCHANGED <<now, nextTick, state, fetchedBy, nextWrite, pushed, running, decodeVars>>

\* setControlInfo of onSet call w ends.  On success the device has taken the
\* command, and the handler calls updateState without awaiting it and resolves;
\* on failure the handler rejects, which the host reports to the controller.
CommandResponse(w, resp) ==
  /\ running
  /\ writes[w].pc = "cmd"
  /\ LET sent == SetControlInfo(resp)
         answer == [http |-> resp.http, ret |-> resp.ret]
     IN  IF sent.ok
           THEN /\ nextRefresh <= MaxRefreshes
                /\ devPow' = writes[w].pow
                /\ refreshes' = [refreshes EXCEPT ![nextRefresh] = BeginRefresh("write", w)]
                /\ nextRefresh' = nextRefresh + 1
                /\ writes' = [writes EXCEPT ![w].pc = "resolved", ![w].answer = answer,
                                            ![w].refreshAtResolve = refreshes'[nextRefresh].pc]
           ELSE /\ writes' = [writes EXCEPT ![w].pc = "rejected", ![w].answer = answer,
                                            ![w].error = sent.error]
                /\ UNCHANGED <<devPow, refreshes, nextRefresh>>
  /\ reply' = NoReply
  /\ UNCHANGED <<now, nextTick, state, fetchedBy, nextWrite, pushed, running, decodeVars>>

\* Read, but calling updateState first when the cache is stale.
Read_refreshing(getter) ==
  /\ running
  /\ reply' = [getter |-> getter, value |-> OnGet(getter, state)]
  /\ IF UseCached(now, state.updated_at) \/ nextRefresh > MaxRefreshes
       THEN UNCHANGED <<refreshes, nextRefresh>>
       ELSE /\ refreshes' = [refreshes EXCEPT ![nextRefresh] = BeginRefresh("read", 0)]
            /\ nextRefresh' = nextRefresh + 1
  /\ UNCHANGED <<now, nextTick, state, fetchedBy, writes, nextWrite, devPow, pushed,
                 running, decodeVars>>

\* An onGet handler is called.
Read(getter) ==
  /\ running
  /\ reply' = [getter |-> getter, value |-> OnGet(getter, state)]
  /\ UNCHANGED <<now, nextTick, state, fetchedBy, refreshes, nextRefresh, writes,
                 nextWrite, devPow, pushed, running, decodeVars>>

Next ==
  \/ Advance
  \/ Tick
  \/ \E r \in RefreshIds : \E resp \in ControlAnswers(devPow) : ControlResponse(r, resp)
  \/ \E r \in RefreshIds : \E resp \in SensorAnswers : SensorResponse(r, resp)
  \/ \E value \in {"ACTIVE", "INACTIVE"} : SetActive(value)
  \/ \E w \in WriteIds : \E resp \in CommandAnswers : CommandResponse(w, resp)
  \/ \E getter \in Getters : Read(getter)

Spec == Init /\ [][Next]_vars

\* ------------------------------------------- getControlInfo on its own
\* The responses getControlInfo is tried on: every combination of a request
\* that failed or not, a ret, a pow and a humd, known or not, present or not.
DecodeInputs ==
  { Response(http, ret, pow, humd, NoText, NoText) :
      http \in {"ok", "error"}, ret \in {"OK", "PARAM NG", Absent},
      pow \in {"0", "1", "2", "", Absent},
      humd \in {"0", "1", "2", "3", "4", "5", Absent} }

DecodeInit ==
  /\ now = StartTime
  /\ nextTick = StartTime + TickPeriod
  /\ state = InitialState
  /\ fetchedBy = InitialFetchedBy
  /\ refreshes = [r \in RefreshIds |-> IF r = 1 THEN BeginRefresh("init", 0) ELSE IdleRefresh]
  /\ nextRefresh = 2
  /\ writes = [w \in WriteIds |-> IdleWrite]
  /\ nextWrite = 1
  /\ devPow = "0"
  /\ pushed = << >>
  /\ reply = NoReply
  /\ running = TRUE
  /\ decodeIn \in DecodeInputs
  /\ decodeOut = << >>
  /\ callIn = NoCall
  /\ callOut = << >>

Decode ==
  /\ decodeOut = << >>
  /\ decodeOut' = <<GetControlInfo(decodeIn)>>
  /\ UNCHANGED <<now, nextTick, state, fetchedBy, refreshes, nextRefresh, writes, nextWrite,
                 devPow, pushed, reply, running, decodeIn, callIn, callOut>>

DecodeNext == Decode

DecodeSpec == DecodeInit /\ [][DecodeNext]_vars

\* ----------------------------------------- the DeviceClient on its own
\* An item of a response body: key=value, or a key alone.
Item(key, value) == [key |-> key, eq |-> TRUE, value |-> value]
Bare(key) == [key |-> key, eq |-> FALSE, value |-> << >>]

ItemText(item) == IF item.eq THEN item.key \o <<"=">> \o item.value ELSE item.key

\* The body the device sends for items: their texts, separated by commas.
RECURSIVE Body(_)
Body(items) ==
  IF items = << >> THEN << >>
  ELSE IF Len(items) = 1 THEN ItemText(items[1])
  ELSE ItemText(Head(items)) \o <<",">> \o Body(Tail(items))

\* The items bodies are made of: statuses, codes, a value holding "=", and a
\* key without a value.
WireItems ==
  { Item(<<"r", "e", "t">>, <<"O", "K">>),
    Item(<<"r", "e", "t">>, <<"N", "G">>),
    Item(<<"p", "o", "w">>, <<"1">>),
    Item(<<"p", "o", "w">>, <<"0">>),
    Item(<<"h", "u", "m", "d">>, <<"4">>),
    Item(<<"i", "d">>, <<"a", "=", "b">>),
    Bare(<<"r", "e", "t">>) }

\* The body of the example in the comment of callDevice.
ExampleItems ==
  << Item(<<"r", "e", "t">>, <<"O", "K">>),
     Item(<<"p", "o", "w">>, <<"1">>),
     Item(<<"m", "o", "d", "e">>, <<"1">>),
     Item(<<"a", "i", "r", "v", "o", "l">>, <<"0">>),
     Item(<<"h", "u", "m", "d">>, <<"4">>) >>

\* The bodies tried: up to MaxItems items in any order, and the example.
WireBodies ==
  UNION { [1..n -> WireItems] : n \in 0..MaxItems } \cup {ExampleItems}

ClientOps == {"getSensorInfo", "getControlInfo", "setControlInfo"}

ClientInit ==
  /\ now = StartTime
  /\ nextTick = StartTime + TickPeriod
  /\ state = InitialState
  /\ fetchedBy = InitialFetchedBy
  /\ refreshes = [r \in RefreshIds |-> IF r = 1 THEN BeginRefresh("init", 0) ELSE IdleRefresh]
  /\ nextRefresh = 2
  /\ writes = [w \in WriteIds |-> IdleWrite]
  /\ nextWrite = 1
  /\ devPow = "0"
  /\ pushed = << >>
  /\ reply = NoReply
  /\ running = TRUE
  /\ decodeIn = TransportFailure
  /\ decodeOut = << >>
  /\ callIn \in ([op : ClientOps, http : {"ok"}, items : WireBodies]
                  \cup [op : ClientOps, http : {"error"}, items : {<< >>}])
  /\ callOut = << >>

\* The operation callIn.op with the axios.get of callDevice ending as callIn
\* says: the body is parsed, ret is checked and the operation decodes.
ClientCall ==
  /\ callOut = << >>
  /\ LET m == ParseData(Body(callIn.items))
         resp == AsResponse(callIn.http, m)
         result == CASE callIn.op = "getSensorInfo" -> GetSensorInfo(resp)
                     [] callIn.op = "getControlInfo" -> GetControlInfo(resp)
                     [] callIn.op = "setControlInfo" -> SetControlInfo(resp)
     IN  callOut' = <<[parsed |-> m, result |-> result]>>
  /\ UNCHANGED <<now, nextTick, state, fetchedBy, refreshes, nextRefresh, writes, nextWrite,
                 devPow, pushed, reply, running, decodeIn, decodeOut, callIn>>

ClientNext == ClientCall

ClientSpec == ClientInit /\ [][ClientNext]_vars

\* ------------------------------------- a device that answers well, at once
\* The answers with which the operations succeed.
GoodControlAnswers(power) == { resp \in ControlAnswers(power) : GetControlInfo(resp).ok }
GoodSensorAnswers == { resp \in SensorAnswers : GetSensorInfo(resp).ok }
GoodCommandAnswers == { resp \in CommandAnswers : SetControlInfo(resp).ok }

\* Time passes only while no call to the device is pending: the calls take no
\* time.
QuietAdvance ==
  /\ running
  /\ \A r \in RefreshIds : refreshes[r].pc \notin {"ctrl", "sensor"}
  /\ \A w \in WriteIds : writes[w].pc # "cmd"
  /\ now + Quantum <= QuietMaxTime
  /\ now + Quantum <= nextTick
  /\ now' = now + Quantum
  /\ reply' = NoReply
  /\ UNCHANGED <<nextTick, state, fetchedBy, refreshes, nextRefresh, writes, nextWrite,
                 devPow, pushed, running, decodeVars>>

QuietNext ==
  \/ QuietAdvance
  \/ Tick
  \/ \E r \in RefreshIds : \E resp \in GoodControlAnswers(devPow) : ControlResponse(r, resp)
  \/ \E r \in RefreshIds : \E resp \in GoodSensorAnswers : SensorResponse(r, resp)
  \/ \E value \in {"ACTIVE", "INACTIVE"} : SetActive(value)
  \/ \E w \in WriteIds : \E resp \in GoodCommandAnswers : CommandResponse(w, resp)

QuietSpec == Init /\ [][QuietNext]_vars

\* ---------------------------- a device that fails at first and then recovers
\* The first updateState call may get any answer; every later call succeeds.
RecoverControl(r) ==
  \E resp \in ControlAnswers(devPow) :
    (r = 1 \/ resp \in GoodControlAnswers(devPow)) /\ ControlResponse(r, resp)

RecoverSensor(r) ==
  \E resp \in SensorAnswers : (r = 1 \/ resp \in GoodSensorAnswers) /\ SensorResponse(r, resp)

\* A pending call whose answer is good completes.
GoodControl(r) == \E resp \in GoodControlAnswers(devPow) : ControlResponse(r, resp)
GoodSensor(r) == \E resp \in GoodSensorAnswers : SensorResponse(r, resp)

RecoverNext ==
  \/ Advance
  \/ Tick
  \/ \E r \in RefreshIds : RecoverControl(r)
  \/ \E r \in RefreshIds : RecoverSensor(r)
  \/ \E getter \in Getters : Read(getter)

\* The clock advances, the timer runs when due, and a call the device answers
\* well completes.
RecoverFairness ==
  /\ WF_vars(Advance)
  /\ WF_vars(Tick)
  /\ \A r \in RefreshIds : WF_vars(GoodControl(r)) /\ WF_vars(GoodSensor(r))

RecoverSpec == Init /\ [][RecoverNext]_vars /\ RecoverFairness

\* ---------------------------------------------------------------- claims
InFlight(r) == refreshes[r].pc \in {"ctrl", "sensor"}

\* The timer callback ran in this step.
TickStep == nextTick' # nextTick

\* updateState was called in this step.
RefreshCalled == nextRefresh' # nextRefresh

\* C1: when an Active onSet call resolves, the updateState call it made has
\* already completed, so this.state was assigned by a refresh that followed the
\* command.
C1_WriteResolvesAfterRefresh ==
  \A w \in WriteIds : writes[w].pc = "resolved" => writes[w].refreshAtResolve = "done"

\* C2: when the updateState call made by an Active onSet call fails, that onSet
\* call fails too: it is rejected, never resolved, and the error is not left
\* unhandled.
C2_RefreshFailureFailsWrite ==
  \A r \in RefreshIds :
    (refreshes[r].origin = "write" /\ refreshes[r].pc = "failed")
      => (writes[refreshes[r].write].pc = "rejected" /\ refreshes[r].rejection # "unhandled")

\* C3: a refresh in which a fetch fails leaves this.state as it was: the step in
\* which an updateState call fails changes neither this.state nor what was
\* pushed, and this.state changes only in the step in which an updateState call
\* completes after both its fetches succeeded, so no step of a failing call
\* changes it, whatever runs in between.
C3_FailedRefreshKeepsState ==
  [][ /\ \A r \in RefreshIds :
           (refreshes[r].pc # "failed" /\ refreshes'[r].pc = "failed")
             => (state' = state /\ fetchedBy' = fetchedBy /\ pushed' = pushed)
      /\ (state' # state \/ fetchedBy' # fetchedBy)
           => \E r \in RefreshIds : refreshes[r].pc = "sensor" /\ refreshes'[r].pc = "done"
    ]_vars

\* C3 witness: a refresh failed at its sensor fetch, after its control fetch
\* succeeded, while this.state held the snapshot of another refresh.
C3_Witness ==
  \E r \in RefreshIds :
    /\ refreshes[r].pc = "failed"
    /\ refreshes[r].failedAt = "sensor"
    /\ fetchedBy.controlInfo \notin {0, r}

\* C4: this.state is the initial snapshot or the controlInfo and sensorInfo
\* fetched by one and the same completed refresh, never parts of two.
C4_StateIsOneSnapshot ==
  /\ fetchedBy.controlInfo = fetchedBy.sensorInfo
  /\ fetchedBy.controlInfo = 0 => state = InitialState
  /\ fetchedBy.controlInfo # 0 =>
       /\ refreshes[fetchedBy.controlInfo].pc = "done"
       /\ state.updated_at >= StartTime

\* C4 witness: this.state holds one refresh's snapshot while another refresh has
\* fetched different control info and awaits its sensor info.
C4_Witness ==
  \E r \in RefreshIds :
    /\ refreshes[r].pc = "sensor"
    /\ fetchedBy.controlInfo \notin {0, r}
    /\ refreshes[r].ctrlInfo # state.controlInfo

\* C5: a tick calls updateState only when the staleness test finds the cache
\* stale; a tick that finds it fresh calls nothing and changes nothing but the
\* timer.
C5_FreshTickIsNoOp ==
  [][ TickStep =>
        /\ RefreshCalled => ~UseCached(now, state.updated_at)
        /\ UseCached(now, state.updated_at) =>
             UNCHANGED <<state, fetchedBy, refreshes, nextRefresh, writes, nextWrite,
                         devPow, pushed, running>>
    ]_vars

\* C5 witness: the timer has just run on a fresh cache, and no updateState call
\* was made by the timer.
C5_Witness ==
  /\ nextTick = now + TickPeriod
  /\ fetchedBy.controlInfo # 0
  /\ now - state.updated_at = Quantum
  /\ \A r \in RefreshIds : refreshes[r].origin # "tick"

\* C6 as claimed: the tick takes the cache for stale exactly when no refresh has
\* succeeded yet or its age is above 5000 ms (so an age of 5000 ms is fresh).
C6_StaleAboveWindow ==
  [][ TickStep =>
        (RefreshCalled <=>
           (fetchedBy.controlInfo = 0 \/ now - state.updated_at > FreshWindow))
    ]_vars

\* C6 as amended: the tick takes the cache for stale exactly when its age, with
\* updated_at = 0 until a refresh has succeeded, is 5000 ms or more; it is fresh
\* for the ages from 0 up to but not including 5000 ms.
C6_StaleFromWindow ==
  [][ TickStep =>
        (RefreshCalled <=>
           (fetchedBy.controlInfo = 0 \/ now - state.updated_at >= FreshWindow))
    ]_vars

\* C6 witness: the timer has just run on a cache exactly 5000 ms old and called
\* updateState.
C6_Witness ==
  /\ nextTick = now + TickPeriod
  /\ fetchedBy.controlInfo # 0
  /\ now - state.updated_at = FreshWindow
  /\ \E r \in RefreshIds : refreshes[r].origin = "tick" /\ refreshes[r].pc = "ctrl"

\* C7: a failure of an updateState call made by the timer is caught: it is no
\* unhandled rejection and the process, with its timer, goes on.
C7_TickFailureIsCaught ==
  \A r \in RefreshIds :
    (refreshes[r].origin = "tick" /\ refreshes[r].pc = "failed")
      => (refreshes[r].rejection # "unhandled" /\ running)

\* The projections of C8, from this.state.
C8_Projection(getter) ==
  CASE getter = "getActive" ->
         [enum |-> IF state.controlInfo.power THEN "ACTIVE" ELSE "INACTIVE", num |-> NaN]
    [] getter = "getCurrentAirPurifierState" ->
         [enum |-> IF state.controlInfo.power THEN "PURIFYING_AIR" ELSE "INACTIVE",
          num |-> NaN]
    [] getter = "getCurrentHumidifierState" ->
         [enum |-> IF state.controlInfo.humidifier THEN "HUMIDIFYING" ELSE "INACTIVE",
          num |-> NaN]
    [] getter = "getCurrentTemperature" ->
         [enum |-> "number", num |-> state.sensorInfo.temperature]
    [] getter = "getCurrentHumidity" ->
         [enum |-> "number", num |-> state.sensorInfo.humidity]
    [] getter = "getTargetAirPurifierState" -> [enum |-> "AUTO", num |-> NaN]
    [] getter = "getTargetHumidifierState" -> [enum |-> "HUMIDIFIER", num |-> NaN]

\* C8: a read returns the projection of the current this.state, calls nothing
\* on the device and changes neither this.state nor anything else.
C8_ReadsAreProjections ==
  [][ reply' # NoReply =>
        /\ reply'.value = C8_Projection(reply'.getter)
        /\ UNCHANGED <<state, fetchedBy, refreshes, nextRefresh, writes, nextWrite, devPow,
                       pushed, running, now, nextTick>>
    ]_vars

\* C8 witness: a read returned the power of a stale snapshot, installed by a
\* refresh, while another refresh was in flight.
C8_Witness ==
  /\ reply.getter = "getActive"
  /\ reply.value.enum = "ACTIVE"
  /\ fetchedBy.controlInfo # 0
  /\ ~UseCached(now, state.updated_at)
  /\ \E r \in RefreshIds : InFlight(r)

\* C9: updated_at never decreases.
C9_UpdatedAtMonotonic == [][state'.updated_at >= state.updated_at]_vars

\* C9 witness: the first updateState call assigned this.state after the second
\* call, made while the first was in flight, had assigned it.
C9_Witness ==
  /\ fetchedBy.controlInfo = 1
  /\ refreshes[2].pc = "done"
  /\ state.updated_at > StartTime

\* C10: on a response with ret = OK, getControlInfo gives power = FALSE for pow
\* "0" and TRUE for "1", humidifier = FALSE for humd "0" and TRUE for "1" to
\* "4"; with any other pow or humd, an absent one included, it throws.
C10_ControlInfoDecoding ==
  (decodeOut # << >> /\ decodeIn.http = "ok" /\ decodeIn.ret = "OK") =>
    LET out == decodeOut[1] IN
    IF decodeIn.pow \in {"0", "1"} /\ decodeIn.humd \in {"0", "1", "2", "3", "4"}
      THEN /\ out.ok
           /\ out.value.power = (decodeIn.pow = "1")
           /\ out.value.humidifier = (decodeIn.humd \in {"1", "2", "3", "4"})
      ELSE ~out.ok

\* C10 witness: getControlInfo decoded pow "1" with humd "4".
C10_Witness ==
  /\ decodeOut # << >>
  /\ decodeIn.http = "ok" /\ decodeIn.ret = "OK"
  /\ decodeIn.pow = "1" /\ decodeIn.humd = "4"
  /\ decodeOut[1].ok

\* The text OK.
OkText == <<"O", "K">>

\* C11: getSensorInfo, getControlInfo and setControlInfo throw, and return
\* nothing, whenever the ret of the parsed mapping is not exactly "OK", a
\* mapping without ret included.
C11_RetNotOkFails ==
  (callOut # << >> /\ callIn.http = "ok") =>
    LET m == callOut[1].parsed
        retIsOk == "ret" \in DOMAIN m /\ m["ret"].def /\ m["ret"].text = OkText
    IN  ~retIsOk => (~callOut[1].result.ok /\ DOMAIN callOut[1].result = {"ok", "error"})

\* C11 witness: setControlInfo threw on a body that holds no ret at all.
C11_Witness ==
  /\ callOut # << >>
  /\ callIn.op = "setControlInfo" /\ callIn.http = "ok"
  /\ callIn.items # << >>
  /\ "ret" \notin DOMAIN callOut[1].parsed
  /\ ~callOut[1].result.ok

\* C15: the parsed mapping gives each key the text that follows the first "="
\* of the last item with that key, further "=" included (bodies whose items
\* all hold an "=").
C15_ParseKeepsValue ==
  (callOut # << >> /\ callIn.http = "ok" /\ callIn.items # << >>
     /\ \A i \in 1..Len(callIn.items) : callIn.items[i].eq) =>
    LET items == callIn.items
        m == callOut[1].parsed
        Last(k) == CHOOSE j \in 1..Len(items) :
                     /\ items[j].key = k
                     /\ \A l \in (j + 1)..Len(items) : items[l].key # k
    IN  /\ DOMAIN m = { Str(items[i].key) : i \in 1..Len(items) }
        /\ \A i \in 1..Len(items) :
             m[Str(items[i].key)] = [def |-> TRUE, text |-> items[Last(items[i].key)].value]

\* An updateState call completes in this step: r goes from its sensor fetch to
\* done.
Completes(r) == refreshes[r].pc = "sensor" /\ refreshes'[r].pc = "done"

\* C12: a power write for on sends pow "1" for TRUE and "0" for FALSE, and when
\* a refresh whose control response carries that pow completes after the
\* write, getActive on the state it leaves returns on (ACTIVE for TRUE,
\* INACTIVE for FALSE), and so does the current air purifier state.
C12_PowerRoundTrip ==
  [][ \A w \in WriteIds :
        /\ writes'[w].pc # "idle" =>
             writes'[w].pow = (IF writes'[w].power THEN "1" ELSE "0")
        /\ \A r \in RefreshIds :
             (/\ Completes(r)
              /\ writes[w].pc = "resolved"
              /\ refreshes[r].ctrlResp.pow = writes[w].pow)
               => /\ OnGet("getActive", state').enum =
                       (IF writes[w].power THEN "ACTIVE" ELSE "INACTIVE")
                  /\ OnGet("getCurrentAirPurifierState", state').enum =
                       (IF writes[w].power THEN "PURIFYING_AIR" ELSE "INACTIVE")
    ]_vars

\* C12 witness: a write for ACTIVE resolved, the refresh it made completed and
\* assigned this.state, and a read of Active returned ACTIVE.
C12_Witness ==
  \E w \in WriteIds : \E r \in RefreshIds :
    /\ writes[w].pc = "resolved" /\ writes[w].power
    /\ refreshes[r].write = w /\ refreshes[r].pc = "done"
    /\ fetchedBy.controlInfo = r
    /\ fetchedBy.controlResp.pow = "1"
    /\ reply.getter = "getActive" /\ reply.value.enum = "ACTIVE"

\* C13: when a refresh completes on the same control and sensor responses as
\* the refresh whose snapshot this.state holds, controlInfo and sensorInfo, all
\* that the getters return and what is pushed stay as they were; updated_at
\* does not go back.
C13_RefreshIdempotent ==
  [][ \A r \in RefreshIds :
        (/\ Completes(r)
         /\ fetchedBy.controlInfo # 0
         /\ fetchedBy'.controlResp = fetchedBy.controlResp
         /\ fetchedBy'.sensorResp = fetchedBy.sensorResp)
          => /\ state'.controlInfo = state.controlInfo
             /\ state'.sensorInfo = state.sensorInfo
             /\ \A getter \in Getters : OnGet(getter, state') = OnGet(getter, state)
             /\ pushed' = pushed
             /\ state'.updated_at >= state.updated_at
    ]_vars

\* C13 witness: two refreshes completed one after the other on the same
\* responses, the second later than the first.
C13_Witness ==
  /\ fetchedBy.repeated
  /\ state.updated_at > StartTime
  /\ fetchedBy.sensorResp.htemp = <<"2", "1", ".", "5">>
  /\ state.sensorInfo.temperature = Num(215)
  /\ pushed[1].currentTemperature = NumValue(Num(215))

\* C14: with a device that answers well and at once, once a refresh has
\* completed the age of this.state never exceeds the freshness window plus one
\* tick period.
C14_BoundedStaleness ==
  fetchedBy.controlInfo # 0 => now - state.updated_at <= FreshWindow + TickPeriod

\* C14 witness: a write refreshed the cache less than a freshness window before
\* a tick, so that tick used the cache and the next one finds it 12500 ms old.
C14_Witness ==
  /\ fetchedBy.controlInfo # 0
  /\ refreshes[fetchedBy.controlInfo].origin = "write"
  /\ now - state.updated_at = FreshWindow + TickPeriod - Quantum
  /\ now = nextTick

\* C16: when an updateState call has failed and every later device call
\* succeeds, then, the timer and the calls being scheduled fairly, this.state is
\* eventually a fresh snapshot.
C16_FailureLeadsToFresh ==
  (\E r \in RefreshIds : refreshes[r].pc = "failed")
    ~> (fetchedBy.controlInfo # 0 /\ UseCached(now, state.updated_at))

\* updateState is called in this step and runs up to its control fetch, the
\* calls already made staying where they are.
StartsRefresh ==
  /\ nextRefresh' = nextRefresh + 1
  /\ refreshes'[nextRefresh].pc = "ctrl"
  /\ \A r \in RefreshIds \ {nextRefresh} : refreshes'[r] = refreshes[r]

\* C17: a tick that finds the cache stale and an onSet call whose command
\* succeeded call updateState whether or not other calls of it are in flight;
\* the new call makes its own fetches, and every call that completes assigns
\* this.state from its own fetches.
C17_NoDeduplication ==
  [][ /\ (TickStep /\ ~UseCached(now, state.updated_at)) => StartsRefresh
      /\ \A w \in WriteIds :
           (writes[w].pc = "cmd" /\ writes'[w].pc = "resolved") => StartsRefresh
      /\ \A r \in RefreshIds :
           Completes(r) =>
             /\ fetchedBy'.controlInfo = r /\ fetchedBy'.sensorInfo = r
             /\ state'.controlInfo = refreshes[r].ctrlInfo
             /\ state'.updated_at = now
    ]_vars

\* C17 witness: the constructor's, a write's and a tick's updateState calls are
\* in flight at once.
C17_Witness ==
  \E r, s \in RefreshIds :
    /\ InFlight(1) /\ InFlight(r) /\ InFlight(s)
    /\ refreshes[r].origin = "write"
    /\ refreshes[s].origin = "tick"

\* C18: once a power write has resolved and every updateState call made has
\* completed without error, no command pending, this.state holds the device's
\* power.
C18_QuiescentPowerIsDevicePower ==
  (/\ \E w \in WriteIds : writes[w].pc = "resolved"
   /\ \A w \in WriteIds : writes[w].pc \in {"idle", "resolved"}
   /\ \A r \in RefreshIds : refreshes[r].pc \in {"idle", "done"})
    => state.controlInfo.power = (devPow = "1")

\* C19: an onSet call whose command fails (no answer, or a ret other than OK)
\* rejects with the error of the command; in that step updateState is not
\* called and this.state, what was pushed and the device stay as they were.
C19_FailedCommandFailsWrite ==
  [][ \A w \in WriteIds :
        (writes[w].pc = "cmd" /\ writes'[w].pc # "cmd") =>
          LET answer == writes'[w].answer
              failed == answer.http # "ok" \/ answer.ret # "OK"
          IN  IF failed
                THEN /\ writes'[w].pc = "rejected"
                     /\ writes'[w].error =
                          (IF answer.http # "ok" THEN "request failed" ELSE "device API failed")
                     /\ UNCHANGED <<state, fetchedBy, refreshes, nextRefresh, pushed, devPow>>
                     /\ \A r \in RefreshIds : refreshes'[r].write # w
                ELSE writes'[w].pc = "resolved" /\ writes'[w].error = "none"
    ]_vars

\* C19 witness: a write was rejected because the device answered with a ret
\* other than OK, while this.state held a snapshot.
C19_Witness ==
  \E w \in WriteIds :
    /\ writes[w].pc = "rejected"
    /\ writes[w].answer = [http |-> "ok", ret |-> "PARAM NG"]
    /\ writes[w].error = "device API failed"
    /\ fetchedBy.controlInfo # 0

\* What updateState pushes for this.state, by service and characteristic.
C20_Projections ==
  [airPurifierCurrentState |-> C8_Projection("getCurrentAirPurifierState"),
   airPurifierActive |-> C8_Projection("getActive"),
   airPurifierTargetState |-> C8_Projection("getTargetAirPurifierState"),
   currentTemperature |-> C8_Projection("getCurrentTemperature"),
   humidifierActive |-> C8_Projection("getActive"),
   currentRelativeHumidity |-> C8_Projection("getCurrentHumidity"),
   humidifierTargetState |-> C8_Projection("getTargetHumidifierState"),
   humidifierCurrentState |-> C8_Projection("getCurrentHumidifierState")]

\* C20: nothing is pushed until an updateState call completes; a call that
\* completes pushes the projections of the state it has just assigned, a call
\* that fails pushes nothing, and what was pushed last is always the
\* projections of this.state.
C20_UpdatePropagation ==
  [][ /\ fetchedBy'.controlInfo = 0 => pushed' = << >>
      /\ fetchedBy'.controlInfo # 0 => pushed' = <<C20_Projections'>>
      /\ \A r \in RefreshIds : Completes(r) => pushed' = <<C20_Projections'>>
      /\ pushed' # pushed => \E r \in RefreshIds : Completes(r)
    ]_vars

\* C20 witness: one updateState call failed, another completed later and
\* pushed ACTIVE and 21.5 degrees.
C20_Witness ==
  /\ \E r \in RefreshIds : refreshes[r].pc = "failed"
  /\ fetchedBy.controlInfo > 1
  /\ pushed # << >>
  /\ pushed[1].airPurifierActive.enum = "ACTIVE"
  /\ pushed[1].currentTemperature.num = Num(215)
====
